---- MODULE Spec2Model ----
(***************************************************************************)
(* Model of the dummy-data command (src/src/nlp/commands/dummy_data.py)    *)
(* and of the IWSLT 2017 example generator (src/datasets/iwslt2017.py).    *)
(*                                                                         *)
(* Three specifications share the module:                                  *)
(*   Spec       DummyDataCommand.run over the builder configurations       *)
(*   SpecSlurp  the pure function slurp on bounded files                   *)
(*   SpecGen    IWSLT217._generate_examples on bounded file pairs          *)
(* The variables of the two specifications that are not running stay at    *)
(* their idle values.                                                      *)
(***************************************************************************)
EXTENDS Integers, Sequences, FiniteSets, TLC

VARIABLES
    \* ---- DummyDataCommand.run ----
    pc,              \* position of the single thread of control
    cfg,             \* index of the configuration the loop of run() is at
    numConfigs,      \* len(configs)
    auto_zip,        \* self._auto_zip
    n_first,         \* self._n_first
    n_last,          \* self._n_last
    builtins_open,   \* the attribute builtins.open
    builtins__open,  \* the attribute builtins._open
    mock,            \* get_files' parameter mock
    caller,          \* which method called get_files
    files,           \* get_files' local list files
    openCalls,       \* history: paths passed to open() during the get_files call
    realOpens,       \* history: paths the real primitive was invoked on in the call
    tempOpens,       \* history: number of temporary files handed out in the call
    splits,          \* len(generator_splits) inside get_files
    split,           \* index of the split whose generator is being driven
    probe,           \* outcome of the _split_generators probe of get_expected_files
    files_to_create, \* value get_expected_files returned
    real_files,      \* auto_zip's local real_files
    fidx,            \* index of auto_zip's first loop in files_to_create
    folder,          \* files below dummy_data_folder: relative path -> lines
    archive,         \* member names of dummy_data.zip, in write order
    archive_written, \* auto_zip has created dummy_data.zip for this configuration
    printed,         \* what get_expected_files printed for this configuration
    exc,             \* the exception that ended run(), if any
    \* ---- slurp ----
    s_pc, s_file, s_n_first, s_n_last, s_lines,
    \* ---- IWSLT217._generate_examples ----
    g_pc, g_sf, g_tf, g_pos, g_id, g_out

mainvars == <<pc, cfg, numConfigs, auto_zip, n_first, n_last, builtins_open,
              builtins__open, mock, caller, files, openCalls, realOpens,
              tempOpens, splits, split, probe, files_to_create, real_files,
              fidx, folder, archive, archive_written, printed, exc>>
slurpvars == <<s_pc, s_file, s_n_first, s_n_last, s_lines>>
genvars == <<g_pc, g_sf, g_tf, g_pos, g_id, g_out>>
vars == <<mainvars, slurpvars, genvars>>

----------------------------------------------------------------------------
(* Bounds *)

MaxLines == 10      \* longest file slurp is applied to in SpecSlurp
MaxN == 3           \* largest n_first / n_last in SpecSlurp
MaxPairs == 2       \* longest source / target file in SpecGen
MaxConfigs == 2     \* most builder configurations in Spec
MaxSplits == 2      \* most splits _split_generators returns in Spec
MaxOpens == 2       \* most open() calls during one get_files call in Spec
MaxTrim == 1        \* largest n_first / n_last in Spec
RealLines == 3      \* number of lines of every real downloaded file in Spec

Min(a, b) == IF a <= b THEN a ELSE b

----------------------------------------------------------------------------
(* slurp *)

\* Variant of KeepLine with an exclusive head boundary.
KeepLineStrict(i, total_lines, nf, nl) ==
    i < nf \/ i >= total_lines - nl

\* Line 28: the retention test of slurp's second loop; i is the 0-based
\* line index.
KeepLine(i, total_lines, nf, nl) ==
    i <= nf \/ i >= total_lines - nl

\* First loop of slurp: counts the lines of the file.
RECURSIVE CountLines(_, _)
CountLines(f, total_lines) ==
    IF f = <<>> THEN total_lines ELSE CountLines(Tail(f), total_lines + 1)

\* Second loop of slurp: enumerate the file, append the retained lines.
RECURSIVE SlurpLoop(_, _, _, _, _, _)
SlurpLoop(f, i, total_lines, nf, nl, lines) ==
    IF i >= Len(f) THEN lines
    ELSE SlurpLoop(f, i + 1, total_lines, nf, nl,
                   IF KeepLine(i, total_lines, nf, nl)
                   THEN Append(lines, f[i + 1]) ELSE lines)

slurp(f, nf, nl) == SlurpLoop(f, 0, CountLines(f, 0), nf, nl, <<>>)

\* Files of SpecSlurp: for each length, one file whose lines are pairwise
\* distinct and one whose lines are all equal.
DistinctFile(T) == [i \in 1..T |-> i - 1]
UniformFile(T) == [i \in 1..T |-> 0]
SlurpFiles == {DistinctFile(T) : T \in 0..MaxLines} \cup {UniformFile(T) : T \in 0..MaxLines}

SlurpIdle ==
    /\ s_pc = "idle" /\ s_file = <<>> /\ s_n_first = 0 /\ s_n_last = 0
    /\ s_lines = <<>>

\* slurp(filename, n_first, n_last) called on a file and returning.
SlurpCall ==
    /\ s_pc = "call"
    /\ s_lines' = slurp(s_file, s_n_first, s_n_last)
    /\ s_pc' = "returned"
    /\ UNCHANGED <<s_file, s_n_first, s_n_last, mainvars, genvars>>

----------------------------------------------------------------------------
(* Python string operations used by _generate_examples.  A string is a     *)
(* sequence of one-character strings.                                      *)

Whitespace == {" ", "\n"}

RECURSIVE lstrip(_)
lstrip(s) == IF s # <<>> /\ Head(s) \in Whitespace THEN lstrip(Tail(s)) ELSE s

RECURSIVE rstrip(_)
rstrip(s) ==
    IF s # <<>> /\ s[Len(s)] \in Whitespace THEN rstrip(SubSeq(s, 1, Len(s) - 1)) ELSE s

strip(s) == rstrip(lstrip(s))

startswith(s, prefix) ==
    Len(s) >= Len(prefix) /\ SubSeq(s, 1, Len(prefix)) = prefix

\* str.split(sep) for a one-character separator: the list of the pieces
\* between the separators, always at least one piece.
RECURSIVE SplitAcc(_, _, _, _)
SplitAcc(s, sep, cur, acc) ==
    IF s = <<>> THEN Append(acc, cur)
    ELSE IF Head(s) = sep THEN SplitAcc(Tail(s), sep, <<>>, Append(acc, cur))
    ELSE SplitAcc(Tail(s), sep, Append(cur, Head(s)), acc)

str_split(s, sep) == SplitAcc(s, sep, <<>>, <<>>)

LT == <<"<">>
SEG == <<"<", "s", "e", "g">>

\* Variant of SegText that yields the empty text for a row without ">".
SegTextLenient(row) ==
    LET parts == str_split(row, ">")
    IN  IF Len(parts) < 2 THEN [raised |-> FALSE, text |-> <<>>]
        ELSE [raised |-> FALSE, text |-> str_split(parts[2], "<")[1]]

\* Lines 173-174 and 175-176: row.split(">")[1], then .split("<")[0].
\* Indexing the one-element list of a row without ">" raises IndexError;
\* the [0] of the second split always exists.
SegText(row) ==
    LET parts == str_split(row, ">")
    IN  IF Len(parts) < 2 THEN [raised |-> TRUE, text |-> <<>>]
        ELSE [raised |-> FALSE, text |-> str_split(parts[2], "<")[1]]

\* Variant of RowOutcome without the "else: continue" of lines 180-181.
RowOutcomeNoSkip(source_line, target_line) ==
    LET source_row == strip(source_line)
        target_row == strip(target_line)
    IN  IF startswith(source_row, SEG)
        THEN LET st == SegText(source_row)
                 tt == SegText(target_row)
             IN  IF st.raised \/ tt.raised
                 THEN [kind |-> "IndexError", source |-> <<>>, target |-> <<>>]
                 ELSE [kind |-> "yield", source |-> strip(st.text), target |-> strip(tt.text)]
        ELSE [kind |-> "yield", source |-> source_row, target |-> target_row]

\* Lines 166-186, the body of the for loop of _generate_examples on one
\* line pair: "yield" with the record's fields, "continue", or "IndexError".
RowOutcome(source_line, target_line) ==
    LET source_row == strip(source_line)
        target_row == strip(target_line)
    IN  IF startswith(source_row, LT)
        THEN IF startswith(source_row, SEG)
             THEN LET st == SegText(source_row)
                      tt == SegText(target_row)
                  IN  IF st.raised \/ tt.raised
                      THEN [kind |-> "IndexError", source |-> <<>>, target |-> <<>>]
                      ELSE [kind |-> "yield", source |-> strip(st.text), target |-> strip(tt.text)]
             ELSE [kind |-> "continue", source |-> <<>>, target |-> <<>>]
        ELSE [kind |-> "yield", source |-> source_row, target |-> target_row]

\* Lines of the source files of SpecGen.
SourceLines ==
    { <<"a", "\n">>,                                                   \* a
      <<" ", "b", " ", "\n">>,                                         \*  b
      <<"<", "d", ">", "\n">>,                                         \* <d>
      <<"<", "s", "e", "g", ">", " ", "a", "<", "/", ">", "\n">>,      \* <seg> a</>
      <<"<", "s", "e", "g", " ", "a", "\n">>,                          \* <seg a
      <<"<", "s", "e", "g", ">", "a", "\n">> }                         \* <seg>a

\* Lines of the target files of SpecGen.
TargetLines ==
    { <<" ", "b", "\n">>,                                              \*  b
      <<"<", "s", "e", "g", ">", "b", " ", "<", "/", ">", "\n">>,      \* <seg>b </>
      <<"<", "s", "e", "g", " ", "b", "\n">>,                          \* <seg b
      <<"<", "s", "e", "g", ">", "b", "\n">> }                         \* <seg>b

SeqsUpTo(S, n) == UNION {[1..m -> S] : m \in 0..n}

GenIdle ==
    /\ g_pc = "idle" /\ g_sf = <<>> /\ g_tf = <<>> /\ g_pos = 0 /\ g_id = 0
    /\ g_out = <<>>

\* zip(sf, tf) stops at the end of the shorter file.
NumPairs == Min(Len(g_sf), Len(g_tf))

\* The pair the for loop takes next.
NextOutcome == RowOutcome(g_sf[g_pos + 1], g_tf[g_pos + 1])

\* Lines 183-187: the pair is yielded with the current id_, then id_ += 1.
GenYield ==
    /\ g_pc = "run" /\ g_pos < NumPairs
    /\ NextOutcome.kind = "yield"
    /\ g_out' = Append(g_out, [id |-> g_id, source |-> NextOutcome.source,
                               target |-> NextOutcome.target])
    /\ g_id' = g_id + 1
    /\ g_pos' = g_pos + 1
    /\ UNCHANGED <<g_pc, g_sf, g_tf, mainvars, slurpvars>>

\* Lines 180-181: a tag line that is not a segment line is passed over.
GenContinue ==
    /\ g_pc = "run" /\ g_pos < NumPairs
    /\ NextOutcome.kind = "continue"
    /\ g_pos' = g_pos + 1
    /\ UNCHANGED <<g_pc, g_sf, g_tf, g_id, g_out, mainvars, slurpvars>>

\* Lines 173, 175: the IndexError leaves the generator.
GenIndexError ==
    /\ g_pc = "run" /\ g_pos < NumPairs
    /\ NextOutcome.kind = "IndexError"
    /\ g_pc' = "raised"
    /\ UNCHANGED <<g_sf, g_tf, g_pos, g_id, g_out, mainvars, slurpvars>>

\* Line 165: zip is exhausted, the generator finishes.
GenExhausted ==
    /\ g_pc = "run" /\ g_pos = NumPairs
    /\ g_pc' = "done"
    /\ UNCHANGED <<g_sf, g_tf, g_pos, g_id, g_out, mainvars, slurpvars>>

(* The dummy-data command: DummyDataCommand.run and the methods it calls *)

\* A path is the sequence of its components.
basename(path) == path[Len(path)]

archive_name == <<"dummy_data.zip">>

\* Paths the builder's routines open when driven with the mock download
\* manager (relative to the dummy-data folder) and with the real one.
MockPaths == { <<"train.txt">>, <<"sub", "test.txt">> }
RealPaths == { <<"cache", "train.txt">>, <<"cache", "x", "test.txt">>,
               <<"cache", "other.txt">> }

\* Lines of a real downloaded file.
RealContent(path) == [i \in 1..RealLines |-> <<basename(path), i - 1>>]

\* What the dummy-data folder of a configuration holds before the command
\* runs (os.makedirs(..., exist_ok=True) accepts an existing folder).
EmptyFolder == [p \in {} |-> <<>>]
PreExisting ==
    { EmptyFolder,
      [p \in { <<"stale.txt">>, <<"stale_dir", "f.txt">>, archive_name } |-> <<>>] }

Range(s) == {s[i] : i \in 1..Len(s)}

NoExc == [type |-> "none", file |-> <<>>, in |-> "none"]
NoProbe == [outcome |-> "none", n |-> 0]

MainIdle ==
    /\ pc = "idle" /\ cfg = 0 /\ numConfigs = 0 /\ auto_zip = FALSE
    /\ n_first = 0 /\ n_last = 0
    /\ builtins_open = "open" /\ builtins__open = "undefined"
    /\ mock = FALSE /\ caller = "none" /\ files = <<>> /\ openCalls = <<>>
    /\ realOpens = <<>> /\ tempOpens = 0 /\ splits = 0 /\ split = 0
    /\ probe = NoProbe /\ files_to_create = <<>> /\ real_files = <<>>
    /\ fidx = 0 /\ folder = EmptyFolder /\ archive = <<>>
    /\ archive_written = FALSE /\ printed = {} /\ exc = NoExc

\* __init__ (its two asserts on auto_zip, n_first, n_last) and the start of
\* run(): the configuration list is built, nothing is patched yet.
Init ==
    /\ pc = "run" /\ cfg = 1
    /\ numConfigs \in 1..MaxConfigs
    /\ auto_zip \in BOOLEAN
    /\ n_first \in 0..MaxTrim /\ n_last \in 0..MaxTrim
    /\ IF auto_zip THEN n_first # 0 \/ n_last # 0 ELSE n_first = 0 /\ n_last = 0
    /\ builtins_open = "open" /\ builtins__open = "undefined"
    /\ mock = FALSE /\ caller = "none" /\ files = <<>> /\ openCalls = <<>>
    /\ realOpens = <<>> /\ tempOpens = 0 /\ splits = 0 /\ split = 0
    /\ probe = NoProbe /\ files_to_create = <<>> /\ real_files = <<>>
    /\ fidx = 0 /\ folder = EmptyFolder /\ archive = <<>>
    /\ archive_written = FALSE /\ printed = {} /\ exc = NoExc
    /\ SlurpIdle /\ GenIdle

\* run(), lines 86-95, and get_expected_files, lines 176-181: the loop takes
\* the next configuration, builds its builder and its mock download manager
\* and makes sure the configuration's dummy-data folder exists.  The locals
\* of the previous iteration are out of scope and start afresh.
RunNextConfig ==
    /\ pc = "run" /\ cfg <= numConfigs
    /\ folder' \in PreExisting
    /\ archive' = <<>> /\ archive_written' = FALSE
    /\ printed' = {} /\ probe' = NoProbe
    /\ mock' = FALSE /\ caller' = "none"
    /\ files' = <<>> /\ openCalls' = <<>> /\ realOpens' = <<>>
    /\ tempOpens' = 0 /\ splits' = 0 /\ split' = 0
    /\ files_to_create' = <<>> /\ real_files' = <<>> /\ fidx' = 0
    /\ pc' = "gef_probe"
    /\ UNCHANGED <<cfg, numConfigs, auto_zip, n_first, n_last, builtins_open,
                   builtins__open, exc, slurpvars, genvars>>

\* run(), line 86: no configuration is left.
RunDone ==
    /\ pc = "run" /\ cfg > numConfigs
    /\ pc' = "done"
    /\ UNCHANGED <<cfg, numConfigs, auto_zip, n_first, n_last, builtins_open,
                   builtins__open, mock, caller, files, openCalls, realOpens,
                   tempOpens, splits, split, probe, files_to_create,
                   real_files, fidx, folder, archive, archive_written,
                   printed, exc, slurpvars, genvars>>

\* get_expected_files, line 184: the probe of _split_generators returns.
GEF_ProbeReturns ==
    /\ pc = "gef_probe"
    /\ \E n \in 0..MaxSplits : probe' = [outcome |-> "returned", n |-> n]
    /\ pc' = "gef_loop"
    /\ UNCHANGED <<cfg, numConfigs, auto_zip, n_first, n_last, builtins_open,
                   builtins__open, mock, caller, files, openCalls, realOpens,
                   tempOpens, splits, split, files_to_create, real_files,
                   fidx, folder, archive, archive_written, printed, exc,
                   slurpvars, genvars>>

\* get_expected_files, lines 185-189: the probe raises FileNotFoundError,
\* which is caught and reported; generator_splits is left unassigned.
GEF_ProbeFileNotFound ==
    /\ pc = "gef_probe"
    /\ probe' = [outcome |-> "FileNotFoundError", n |-> 0]
    /\ printed' = printed \cup {"open_in_split_generators"}
    /\ pc' = "gef_loop"
    /\ UNCHANGED <<cfg, numConfigs, auto_zip, n_first, n_last, builtins_open,
                   builtins__open, mock, caller, files, openCalls, realOpens,
                   tempOpens, splits, split, files_to_create, real_files,
                   fidx, folder, archive, archive_written, exc, slurpvars,
                   genvars>>

\* get_expected_files, line 184: any other exception of the probe leaves
\* the method.
GEF_ProbeRaises ==
    /\ pc = "gef_probe"
    /\ probe' = [outcome |-> "raised", n |-> 0]
    /\ exc' = [type |-> "BuilderError", file |-> <<>>, in |-> "get_expected_files"]
    /\ pc' = "raised"
    /\ UNCHANGED <<cfg, numConfigs, auto_zip, n_first, n_last, builtins_open,
                   builtins__open, mock, caller, files, openCalls, realOpens,
                   tempOpens, splits, split, files_to_create, real_files,
                   fidx, folder, archive, archive_written, printed,
                   slurpvars, genvars>>

\* get_expected_files, lines 191-208: the loop over generator_splits, then
\* the call get_files(dataset_builder, mock_dl_manager, mock=True).  Reading
\* the unassigned generator_splits raises UnboundLocalError.
GEF_Loop ==
    /\ pc = "gef_loop"
    /\ IF probe.outcome = "returned"
       THEN /\ mock' = TRUE /\ caller' = "get_expected_files"
            /\ pc' = "gf_enter"
            /\ exc' = exc
       ELSE /\ exc' = [type |-> "UnboundLocalError", file |-> <<>>,
                       in |-> "get_expected_files"]
            /\ pc' = "raised"
            /\ UNCHANGED <<mock, caller>>
    /\ UNCHANGED <<cfg, numConfigs, auto_zip, n_first, n_last, builtins_open,
                   builtins__open, files, openCalls, realOpens, tempOpens,
                   splits, split, probe, files_to_create, real_files, fidx,
                   folder, archive, archive_written, printed, slurpvars,
                   genvars>>

\* Variant of FilesAfterOpen that records a path once only.
FilesAfterOpenDedup(fs, path) ==
    IF path \in Range(fs) THEN fs ELSE Append(fs, path)

\* get_files, line 109: the recorder appends the requested path.
FilesAfterOpen(fs, path) == Append(fs, path)

\* get_files, lines 106-117: the recorder is installed.
GF_Enter ==
    /\ pc = "gf_enter"
    /\ files' = <<>>
    /\ builtins__open' = builtins_open
    /\ builtins_open' = "monkey_patch_open"
    /\ openCalls' = <<>> /\ realOpens' = <<>> /\ tempOpens' = 0
    /\ splits' = 0 /\ split' = 0
    /\ pc' = "gf_split_generators"
    /\ UNCHANGED <<cfg, numConfigs, auto_zip, n_first, n_last, mock, caller,
                   probe, files_to_create, real_files, fidx, folder, archive,
                   archive_written, printed, exc, slurpvars, genvars>>

\* get_files, line 119: _split_generators returns its list of splits.
GF_SplitGeneratorsReturns ==
    /\ pc = "gf_split_generators"
    /\ splits' \in 0..MaxSplits
    /\ split' = 1
    /\ pc' = "gf_generate"
    /\ UNCHANGED <<cfg, numConfigs, auto_zip, n_first, n_last, builtins_open,
                   builtins__open, mock, caller, files, openCalls, realOpens,
                   tempOpens, probe, files_to_create, real_files, fidx,
                   folder, archive, archive_written, printed, exc, slurpvars,
                   genvars>>

\* get_files, line 119: _split_generators raises; nothing in get_files
\* catches it, line 127 is not reached.
GF_SplitGeneratorsRaises ==
    /\ pc = "gf_split_generators"
    /\ exc' = [type |-> "BuilderError", file |-> <<>>, in |-> "get_files"]
    /\ pc' = "raised"
    /\ UNCHANGED <<cfg, numConfigs, auto_zip, n_first, n_last, builtins_open,
                   builtins__open, mock, caller, files, openCalls, realOpens,
                   tempOpens, splits, split, probe, files_to_create,
                   real_files, fidx, folder, archive, archive_written,
                   printed, slurpvars, genvars>>

\* A call open(path, ...) made by the builder's code while get_files drives
\* it (iwslt2017.py lines 163-164): the call goes to whatever builtins.open
\* is bound to.  monkey_patch_open, lines 108-114, records the path and
\* hands out a temporary file (mock) or calls builtins._open.
GF_Open ==
    /\ \/ pc = "gf_split_generators"
       \/ pc = "gf_generate" /\ split <= splits
    /\ Len(openCalls) < MaxOpens
    /\ \E path \in (IF mock THEN MockPaths ELSE RealPaths) :
         /\ openCalls' = Append(openCalls, path)
         /\ IF builtins_open = "monkey_patch_open"
            THEN /\ files' = FilesAfterOpen(files, path)
                 /\ IF mock
                    THEN /\ tempOpens' = tempOpens + 1
                         /\ realOpens' = realOpens
                    ELSE /\ tempOpens' = tempOpens
                         /\ realOpens' = IF builtins__open = "open"
                                         THEN Append(realOpens, path)
                                         ELSE realOpens
            ELSE /\ files' = files
                 /\ tempOpens' = tempOpens
                 /\ realOpens' = Append(realOpens, path)
    /\ UNCHANGED <<pc, cfg, numConfigs, auto_zip, n_first, n_last,
                   builtins_open, builtins__open, mock, caller, splits,
                   split, probe, files_to_create, real_files, fidx, folder,
                   archive, archive_written, printed, exc, slurpvars,
                   genvars>>

\* get_files, lines 123-125: the generator of the current split raises
\* while it is driven; line 127 is not reached.
GF_GenerateRaises ==
    /\ pc = "gf_generate" /\ split <= splits
    /\ exc' = [type |-> "BuilderError", file |-> <<>>, in |-> "get_files"]
    /\ pc' = "raised"
    /\ UNCHANGED <<cfg, numConfigs, auto_zip, n_first, n_last, builtins_open,
                   builtins__open, mock, caller, files, openCalls, realOpens,
                   tempOpens, splits, split, probe, files_to_create,
                   real_files, fidx, folder, archive, archive_written,
                   printed, slurpvars, genvars>>

\* get_files, lines 121-125: the generator of the current split is
\* exhausted, the loop goes to the next split.
GF_NextSplit ==
    /\ pc = "gf_generate" /\ split <= splits
    /\ split' = split + 1
    /\ UNCHANGED <<pc, cfg, numConfigs, auto_zip, n_first, n_last,
                   builtins_open, builtins__open, mock, caller, files,
                   openCalls, realOpens, tempOpens, splits, probe,
                   files_to_create, real_files, fidx, folder, archive,
                   archive_written, printed, exc, slurpvars, genvars>>

\* get_files, lines 127-128: the saved primitive is put back and the list
\* is returned.
GF_Return ==
    /\ pc = "gf_generate" /\ split > splits
    /\ builtins_open' = builtins__open
    /\ pc' = "gf_returned"
    /\ UNCHANGED <<cfg, numConfigs, auto_zip, n_first, n_last,
                   builtins__open, mock, caller, files, openCalls, realOpens,
                   tempOpens, splits, split, probe, files_to_create,
                   real_files, fidx, folder, archive, archive_written,
                   printed, exc, slurpvars, genvars>>

\* get_expected_files, lines 208-247, and run(), lines 95-99: the list
\* get_files returned is files_to_create; the instructions are printed
\* when auto-zip is off, and the pair is returned to run(), which goes on
\* to auto_zip or to the next configuration.
GEF_Return ==
    /\ pc = "gf_returned" /\ caller = "get_expected_files"
    /\ auto_zip \/ probe.n > 0
    /\ files_to_create' = files
    /\ probe' = NoProbe
    /\ IF auto_zip
       THEN /\ pc' = "az_start"
            /\ UNCHANGED <<printed, cfg>>
       ELSE /\ printed' = printed \cup {"instructions"}
            /\ cfg' = cfg + 1
            /\ pc' = "run"
    /\ UNCHANGED <<numConfigs, auto_zip, n_first, n_last, builtins_open,
                   builtins__open, mock, caller, files, openCalls, realOpens,
                   tempOpens, splits, split, real_files, fidx, folder,
                   archive, archive_written, exc, slurpvars, genvars>>

\* get_expected_files, lines 211-240: with no split in the probed list,
\* dummy_data_guidance_print was never assigned and the first "+=" on it
\* raises UnboundLocalError.
GEF_InstructionsUnbound ==
    /\ pc = "gf_returned" /\ caller = "get_expected_files"
    /\ ~auto_zip /\ probe.n = 0
    /\ exc' = [type |-> "UnboundLocalError", file |-> <<>>,
               in |-> "get_expected_files"]
    /\ pc' = "raised"
    /\ UNCHANGED <<cfg, numConfigs, auto_zip, n_first, n_last, builtins_open,
                   builtins__open, mock, caller, files, openCalls, realOpens,
                   tempOpens, splits, split, probe, files_to_create,
                   real_files, fidx, folder, archive, archive_written,
                   printed, slurpvars, genvars>>

\* auto_zip, line 132, and get_real_files, lines 101-103: get_files is
\* called with a real download manager and mock left False.
AZ_Start ==
    /\ pc = "az_start"
    /\ mock' = FALSE /\ caller' = "auto_zip"
    /\ pc' = "gf_enter"
    /\ UNCHANGED <<cfg, numConfigs, auto_zip, n_first, n_last, builtins_open,
                   builtins__open, files, openCalls, realOpens, tempOpens,
                   splits, split, probe, files_to_create, real_files, fidx,
                   folder, archive, archive_written, printed, exc, slurpvars,
                   genvars>>

\* auto_zip, line 132: the list get_files returned is real_files.
AZ_RealFiles ==
    /\ pc = "gf_returned" /\ caller = "auto_zip"
    /\ real_files' = files
    /\ fidx' = 1
    /\ pc' = "az_files"
    /\ UNCHANGED <<cfg, numConfigs, auto_zip, n_first, n_last, builtins_open,
                   builtins__open, mock, caller, files, openCalls, realOpens,
                   tempOpens, splits, split, probe, files_to_create, folder,
                   archive, archive_written, printed, exc, slurpvars,
                   genvars>>

\* Variant of Matches that compares the whole paths.
MatchesFullPath(filename, file_to_create) == filename = file_to_create

\* auto_zip, line 139: the test that pairs a real file with an expected
\* one compares their base filenames.
Matches(filename, file_to_create) ==
    basename(filename) = basename(file_to_create)

\* auto_zip, lines 136-140: the list comprehension over real_files.
MatchingRealFiles(real, file_to_create) ==
    SelectSeq(real, LAMBDA filename : Matches(filename, file_to_create))

\* A file written below the dummy-data folder (os.makedirs of its directory,
\* then open(..., "w") and the writes).
WriteFile(fld, path, lines) ==
    [p \in DOMAIN fld \cup {path} |-> IF p = path THEN lines ELSE fld[p]]

\* auto_zip, lines 134-151, one iteration with a match: the first matching
\* real file is slurped and its retained lines are written at the expected
\* relative path.
AZ_WriteFile ==
    /\ pc = "az_files" /\ fidx <= Len(files_to_create)
    /\ LET file_to_create == files_to_create[fidx]
           matching == MatchingRealFiles(real_files, file_to_create)
       IN  /\ matching # <<>>
           /\ LET real_file == matching[1]
                  lines == slurp(RealContent(real_file), n_first, n_last)
              IN  folder' = WriteFile(folder, file_to_create, lines)
    /\ fidx' = fidx + 1
    /\ UNCHANGED <<pc, cfg, numConfigs, auto_zip, n_first, n_last,
                   builtins_open, builtins__open, mock, caller, files,
                   openCalls, realOpens, tempOpens, splits, split, probe,
                   files_to_create, real_files, archive, archive_written,
                   printed, exc, slurpvars, genvars>>

\* auto_zip, lines 141-142: no real file matches; the IndexError of [0] is
\* turned into an Exception whose message carries file_to_create.
AZ_NoMatch ==
    /\ pc = "az_files" /\ fidx <= Len(files_to_create)
    /\ MatchingRealFiles(real_files, files_to_create[fidx]) = <<>>
    /\ exc' = [type |-> "Exception", file |-> files_to_create[fidx],
               in |-> "auto_zip"]
    /\ pc' = "raised"
    /\ UNCHANGED <<cfg, numConfigs, auto_zip, n_first, n_last, builtins_open,
                   builtins__open, mock, caller, files, openCalls, realOpens,
                   tempOpens, splits, split, probe, files_to_create,
                   real_files, fidx, folder, archive, archive_written,
                   printed, slurpvars, genvars>>

\* auto_zip, lines 153-162: dummy_data.zip is created in the folder with
\* one member per element of files_to_create, named by that element.
AZ_Archive ==
    /\ pc = "az_files" /\ fidx > Len(files_to_create)
    /\ archive' = files_to_create
    /\ archive_written' = TRUE
    /\ folder' = WriteFile(folder, archive_name, <<>>)
    /\ pc' = "az_cleanup"
    /\ UNCHANGED <<cfg, numConfigs, auto_zip, n_first, n_last, builtins_open,
                   builtins__open, mock, caller, files, openCalls, realOpens,
                   tempOpens, splits, split, probe, files_to_create,
                   real_files, fidx, printed, exc, slurpvars, genvars>>

IsDir(fld, entry) == \E p \in DOMAIN fld : Head(p) = entry /\ Len(p) > 1

\* Variant of RemoveOthers that leaves directories in place.
RemoveOthersFilesOnly(fld) ==
    LET entries == {Head(p) : p \in DOMAIN fld}
        removed == {e \in entries : e # Head(archive_name) /\ ~IsDir(fld, e)}
    IN  [p \in {q \in DOMAIN fld : Head(q) \notin removed} |-> fld[p]]

\* auto_zip, lines 165-173: every entry of the folder but the archive is
\* removed, directories with rmtree and files with remove.
RemoveOthers(fld) ==
    LET entries == {Head(p) : p \in DOMAIN fld}
        removed == {e \in entries : e # Head(archive_name)}
    IN  [p \in {q \in DOMAIN fld : Head(q) \notin removed} |-> fld[p]]

\* auto_zip, lines 164-173, and run(), line 86: the folder is cleaned and
\* the loop of run() goes to the next configuration.
AZ_Cleanup ==
    /\ pc = "az_cleanup"
    /\ folder' = RemoveOthers(folder)
    /\ cfg' = cfg + 1
    /\ pc' = "run"
    /\ UNCHANGED <<numConfigs, auto_zip, n_first, n_last, builtins_open,
                   builtins__open, mock, caller, files, openCalls, realOpens,
                   tempOpens, splits, split, probe, files_to_create,
                   real_files, fidx, archive, archive_written, printed, exc,
                   slurpvars, genvars>>

Next ==
    \/ RunNextConfig \/ RunDone
    \/ GEF_ProbeReturns \/ GEF_ProbeFileNotFound \/ GEF_ProbeRaises
    \/ GEF_Loop
    \/ GF_Enter \/ GF_SplitGeneratorsReturns \/ GF_SplitGeneratorsRaises
    \/ GF_Open \/ GF_GenerateRaises \/ GF_NextSplit \/ GF_Return
    \/ GEF_Return \/ GEF_InstructionsUnbound
    \/ AZ_Start \/ AZ_RealFiles \/ AZ_WriteFile \/ AZ_NoMatch
    \/ AZ_Archive \/ AZ_Cleanup

Spec == Init /\ [][Next]_vars

----------------------------------------------------------------------------
(* slurp applied to bounded inputs *)

InitSlurp ==
    /\ s_pc = "call"
    /\ s_file \in SlurpFiles
    /\ s_n_first \in 0..MaxN /\ s_n_last \in 0..MaxN
    /\ s_lines = <<>>
    /\ MainIdle /\ GenIdle

NextSlurp == SlurpCall

SpecSlurp == InitSlurp /\ [][NextSlurp]_vars

----------------------------------------------------------------------------
(* _generate_examples applied to bounded file pairs *)

InitGen ==
    /\ g_pc = "run"
    /\ g_sf \in SeqsUpTo(SourceLines, MaxPairs)
    /\ g_tf \in SeqsUpTo(TargetLines, MaxPairs)
    /\ g_pos = 0 /\ g_id = 0 /\ g_out = <<>>
    /\ MainIdle /\ SlurpIdle

NextGen == GenYield \/ GenContinue \/ GenIndexError \/ GenExhausted

SpecGen == InitGen /\ [][NextGen]_vars

----------------------------------------------------------------------------
(* Properties *)

\* The lines of content whose 0-based index is in idx, in file order.
PickLines(content, idx) ==
    [k \in 1..Cardinality(idx) |->
        content[(CHOOSE i \in idx : Cardinality({j \in idx : j < i}) = k - 1) + 1]]

\* C1: whenever control has left get_files, by its return or by an
\* exception raised inside it, builtins.open is the original primitive.
C1_OpenRestoredOnEveryExit ==
    (pc = "gf_returned" \/ (pc = "raised" /\ exc.in = "get_files"))
        => builtins_open = "open"

\* C2: once the probe of _split_generators in get_expected_files has raised
\* FileNotFoundError and it was caught, get_expected_files does not end
\* with an error of its own: it goes on to collect the expected files.
C2_ContinuesAfterFileNotFound ==
    ~(pc = "raised" /\ exc.in = "get_expected_files"
        /\ probe.outcome = "FileNotFoundError")

\* C3: the list get_files returns is the sequence of the paths passed to
\* open during the call, in call order and with duplicates; in mock mode
\* every open is served by a temporary file and the real primitive is
\* invoked on no path.
C3_RecorderReturnsOpenCalls ==
    /\ pc = "gf_returned" => files = openCalls
    /\ mock => (realOpens = <<>> /\ tempOpens = Len(openCalls))

C3_Witness ==
    /\ pc = "gf_returned" /\ mock
    /\ Len(openCalls) >= 2 /\ openCalls[1] # openCalls[2]
    /\ tempOpens >= 2

\* C4: when auto_zip ends with its Exception, the file the exception names
\* is the expected file the loop was at, no recorded real file has its base
\* filename, and no archive was written for the configuration; an archive
\* is written only if every expected file has a real file with its base
\* filename.
C4_NoMatchNamesExpectedFile ==
    /\ (pc = "raised" /\ exc.in = "auto_zip") =>
          /\ exc.type = "Exception"
          /\ fidx \in 1..Len(files_to_create)
          /\ exc.file = files_to_create[fidx]
          /\ \A r \in Range(real_files) : basename(r) # basename(exc.file)
          /\ ~archive_written
    /\ archive_written =>
          \A f \in Range(files_to_create) :
              \E r \in Range(real_files) : basename(r) = basename(f)

C4_Witness ==
    /\ pc = "raised" /\ exc.in = "auto_zip"
    /\ fidx > 1
    /\ \E r \in Range(real_files) : r # exc.file

C6_OnlyHeadAndTailWritten ==
    pc = "az_files" =>
        \A k \in 1..(fidx - 1) :
            LET f == files_to_create[k]
                real == SelectSeq(real_files, LAMBDA r : basename(r) = basename(f))[1]
                content == RealContent(real)
                T == Len(content)
                idx == {i \in 0..(T - 1) : i < n_first \/ i >= T - n_last}
            IN  /\ folder[f] = PickLines(content, idx)
                /\ Len(folder[f]) <= n_first + n_last

\* The pair k of the walk is one the generator has to emit: its stripped
\* source line does not start with "<", or starts with "<seg".
Qualifies(k) ==
    LET s == strip(g_sf[k]) IN ~startswith(s, LT) \/ startswith(s, SEG)

QualifyingPairs(n) == {k \in 1..n : Qualifies(k)}

\* C7: the records emitted so far are one per walked pair that qualifies,
\* in order, with the ids 0, 1, ..., k-1; a record of a plain-text pair is
\* the stripped line pair; a finished walk has reached the end of the
\* shorter file.
C7_OneRecordPerQualifyingPair ==
    LET q == QualifyingPairs(g_pos)
    IN  /\ Len(g_out) = Cardinality(q)
        /\ g_id = Len(g_out)
        /\ \A j \in 1..Len(g_out) :
              LET k == CHOOSE i \in q : Cardinality({m \in q : m < i}) = j - 1
              IN  /\ g_out[j].id = j - 1
                  /\ ~startswith(strip(g_sf[k]), LT) =>
                        /\ g_out[j].source = strip(g_sf[k])
                        /\ g_out[j].target = strip(g_tf[k])
        /\ g_pc = "done" => g_pos = Min(Len(g_sf), Len(g_tf))

C7_Witness ==
    /\ g_pc = "done" /\ g_pos = 2
    /\ ~Qualifies(1) /\ Qualifies(2)
    /\ Len(g_out) = 1 /\ g_out[1].id = 0

HasChar(s, c) == \E i \in 1..Len(s) : s[i] = c

\* The row has a ">" and a "<" somewhere after its first ">".
HasLtAfterGt(s) ==
    \E i \in 1..Len(s) :
        /\ s[i] = ">"
        /\ \A h \in 1..(i - 1) : s[h] # ">"
        /\ \E j \in (i + 1)..Len(s) : s[j] = "<"

IsSegPair(k) == startswith(strip(g_sf[k]), SEG)

\* A segment pair whose source or target line has no ">".
MissingGt(k) ==
    IsSegPair(k) /\ (~HasChar(strip(g_sf[k]), ">") \/ ~HasChar(strip(g_tf[k]), ">"))

\* A segment pair whose source or target line has no ">" or no "<" after it.
Malformed(k) ==
    IsSegPair(k) /\ (~HasLtAfterGt(strip(g_sf[k])) \/ ~HasLtAfterGt(strip(g_tf[k])))

\* C8 as stated: no pair that was walked past (emitted or skipped) is a
\* segment pair whose source or target lacks a ">" or a "<" after it.
C8_MalformedNeverWalkedPast ==
    \A k \in 1..g_pos : ~Malformed(k)

\* C8 as amended: a segment pair whose source or target line has no ">" is
\* never walked past, the walk ends there with the IndexError, and the
\* IndexError is raised at no other pair.
C8_MissingGtRaises ==
    /\ \A k \in 1..g_pos : ~MissingGt(k)
    /\ g_pc = "raised" => (g_pos < Min(Len(g_sf), Len(g_tf)) /\ MissingGt(g_pos + 1))
    /\ g_pc = "done" => \A k \in 1..Min(Len(g_sf), Len(g_tf)) : ~MissingGt(k)

C8_Witness ==
    /\ g_pc = "raised" /\ g_pos = 1
    /\ HasChar(strip(g_sf[2]), ">") /\ ~HasChar(strip(g_tf[2]), ">")
    /\ Malformed(1) /\ Len(g_out) = 1

\* C9: when auto_zip has completed for a configuration, the dummy-data
\* folder holds dummy_data.zip and nothing else, and the members of the
\* archive are the expected files under their expected relative paths.
C9_FolderHoldsOnlyArchive ==
    ((pc = "run" \/ pc = "done") /\ archive_written) =>
        /\ DOMAIN folder = {archive_name}
        /\ Range(archive) = Range(files_to_create)

C9_Witness ==
    /\ pc = "run" /\ archive_written
    /\ \E f \in Range(files_to_create) : Len(f) > 1
    /\ \E f \in Range(archive) : Len(f) = 1

\* C10: the list get_expected_files returned holds no path twice.
C10_ExpectedFilesDeduplicated ==
    \A i, j \in 1..Len(files_to_create) :
        i # j => files_to_create[i] # files_to_create[j]

\* A get_files call is between the installation of its recorder (line 117)
\* and its exit.
GetFilesActive == pc = "gf_split_generators" \/ pc = "gf_generate"

\* C11: over a whole run() the interception has one owner at a time: every
\* get_files call begins with builtins.open bound to the original primitive
\* (so the real-mode call of auto_zip never installs its recorder over the
\* one of the mock-mode call), and whenever no get_files call is active
\* builtins.open is the original primitive.
C11_SingleOwnerOfInterception ==
    /\ pc = "gf_enter" => builtins_open = "open"
    /\ ~GetFilesActive => builtins_open = "open"

====
